---- MODULE Spec2Model ----
(***************************************************************************)
(* A model of soter-trivy: the JSON-RPC operations scan_image and status  *)
(* (soter/trivy/app.py, and the earlier single-module soter/trivy.py) and  *)
(* the vulnerability database commands of soter/trivy/db.py.               *)
(*                                                                         *)
(* Every coroutine is a process with a program counter.  A coroutine only  *)
(* yields at an await, so a cancellation (CancelledError) is delivered     *)
(* only at the awaits; the steps between two awaits are kept as separate   *)
(* actions in the order of the code, which only adds interleavings.        *)
(***************************************************************************)
EXTENDS Integers, Sequences, FiniteSets, TLC

(***************************************************************************)
(* Bounds of the model.                                                    *)
(***************************************************************************)
MaxCalls == 2
MaxCapacity == 2
MaxStatusCalls == 2
MaxInterval == 3
MaxUpdates == 3
MaxRuns == 3
MaxRefs == 2
MaxWords == 3

Calls == 1..MaxCalls
StatusCalls == 1..MaxStatusCalls

VARIABLES
    TRIVY_CONCURRENT_SCANS, \* app.py:44, the configured capacity N
    scan_semaphore,         \* app.py:127, asyncio.Semaphore: [value, waiters]
    woken,                  \* the waiters whose future has been resolved by a release
    holds,                  \* the calls inside the body of "async with app.scan_semaphore"
    pc,                     \* position of every scan_image call
    proc,                   \* the scanner subprocess of every scan_image call
    frame,                  \* locals of scan_image: returncode, stdout_data, stderr_data
    outcome,                \* how every scan_image call ended
    spc,                    \* position of every status call
    sproc,                  \* the version-query subprocess of every status call
    soutcome,               \* how every status call ended
    TRIVY_DB_UPDATE_INTERVAL, \* db.py:17, the configured interval in seconds
    upc,                    \* position of the periodic_update loop
    db_procs,               \* the database-download subprocesses that have not exited
    uproc,                  \* the subprocess do_update is waiting for
    timer,                  \* seconds left of the current asyncio.sleep
    slept,                  \* the duration the last asyncio.sleep was called with
    updates,                \* number of do_update calls started (capped)
    events,                 \* the updates started and sleeps elapsed, in order
    epc,                    \* position of the console script trivy-db-exists / trivy-db-update
    eproc,                  \* the subprocess the console script is waiting for
    estatus,                \* the exit status of the console script's last run
    downloads,              \* download commands started by the current run of the script
    runs,                   \* number of runs of the console scripts (capped)
    sel_pc,                 \* position of a call of select_reference
    sel_refs,               \* the References value of the raw vulnerability
    sel_url                 \* what the call returned

scan_vars == <<TRIVY_CONCURRENT_SCANS, scan_semaphore, woken, holds, pc, proc, frame, outcome>>
status_vars == <<spc, sproc, soutcome>>
db_vars == <<TRIVY_DB_UPDATE_INTERVAL, upc, db_procs, uproc, timer, slept, updates, events>>
cmd_vars == <<epc, eproc, estatus, downloads, runs>>
sel_vars == <<sel_pc, sel_refs, sel_url>>
vars == <<scan_vars, status_vars, db_vars, cmd_vars, sel_vars>>

(***************************************************************************)
(* Data: bytes, JSON documents and exceptions.                             *)
(***************************************************************************)

\* Captured stderr is a byte string; 101 is ASCII "e", 255 is never valid UTF-8.
NoBytes == <<>>
StderrValues == {<<101>>, <<255>>}

\* bytes.decode() with the default codec (utf-8, strict): fails on a byte
\* that cannot start a UTF-8 sequence.  Exact on the bytes used here.
CanDecode(bytes) == \A i \in 1..Len(bytes) : bytes[i] < 128

\* Exceptions and return values share one record shape.
\* kind is "result" or the exception's class, key the key of a KeyError.
NoOutcome == [kind |-> "none", code |-> 0, data |-> NoBytes, key |-> "", result |-> <<>>]
Raised(kind) == [NoOutcome EXCEPT !.kind = kind]
KeyError(key) == [NoOutcome EXCEPT !.kind = "KeyError", !.key = key]
Returned(value) == [NoOutcome EXCEPT !.kind = "result", !.result = value]

\* class TrivyError(JsonRpcException): message "Trivy error", code 100,
\* constructed with the captured stderr bytes as its data.
TrivyErrorCode == 100
TrivyError(stderr_data) ==
    [NoOutcome EXCEPT !.kind = "TrivyError", !.code = TrivyErrorCode, !.data = stderr_data]

\* The members of the Severity enum of soter.scanner.models.
SeverityNames == {"LOW", "MEDIUM", "HIGH", "CRITICAL", "UNKNOWN"}

\* The severity tokens the scanner is given to emit here, and str.upper() on them.
SeverityTokens == {"CRITICAL", "critical", "Low", "SEV9"}
Upper(token) ==
    CASE token = "critical" -> "CRITICAL"
      [] token = "Low" -> "LOW"
      [] OTHER -> token

\* The preferred reference sources, in order of preference.
PREFERRED_REFERENCES ==
    << "cve.mitre.org", "redhat.com", "debian.org", "gentoo.org",
       "opensuse.org", "suse.com", "python.org", "oracle.com" >>

\* A reference is a sequence of whitespace-separated words.  A word is
\* [url, id, contains]: url says whether the word matches https?://\S+ ,
\* contains is the set of preferred hosts that are substrings of it.
Word(url, id, contains) == [url |-> url, id |-> id, contains |-> contains]

\* As FindAll, with every word of a reference taken for a URL.
FindAll_Whole(reference) == reference

\* URL_REGEX.findall(reference): the matching words, in order.
RECURSIVE FindAll(_)
FindAll(reference) ==
    IF reference = <<>> THEN <<>>
    ELSE (IF Head(reference).url THEN <<Head(reference)>> ELSE <<>>)
         \o FindAll(Tail(reference))

\* list(itertools.chain.from_iterable(findall(r) for r in references))
RECURSIVE ChainUrls(_)
ChainUrls(references) ==
    IF references = <<>> THEN <<>>
    ELSE FindAll(Head(references)) \o ChainUrls(Tail(references))

\* next(url for url in reference_urls if pref in url), as an index; 0 is StopIteration.
FirstWith(reference_urls, pref) ==
    LET hits == {i \in 1..Len(reference_urls) : pref \in reference_urls[i].contains}
    IN  IF hits = {} THEN 0 ELSE CHOOSE i \in hits : \A j \in hits : i <= j

NoUrl == [present |-> FALSE, url |-> Word(FALSE, 0, {})]
SomeUrl(u) == [present |-> TRUE, url |-> u]

\* As SelectFrom, with the loops the other way round: the first URL, in
\* list order, that contains any preferred host.
SelectFrom_ListOrder(reference_urls, k) ==
    LET hits == {i \in 1..Len(reference_urls) : reference_urls[i].contains # {}}
    IN  IF hits # {} THEN SomeUrl(reference_urls[CHOOSE i \in hits : \A j \in hits : i <= j])
        ELSE IF reference_urls = <<>> THEN NoUrl ELSE SomeUrl(reference_urls[1])

RECURSIVE SelectFrom(_, _)
SelectFrom(reference_urls, k) ==
    IF k > Len(PREFERRED_REFERENCES)
    THEN IF reference_urls = <<>> THEN NoUrl ELSE SomeUrl(reference_urls[1])
    ELSE LET i == FirstWith(reference_urls, PREFERRED_REFERENCES[k])
         IN  IF i # 0 THEN SomeUrl(reference_urls[i])
             ELSE SelectFrom(reference_urls, k + 1)

select_reference(references) == SelectFrom(ChainUrls(references), 1)

\* A raw vulnerability: the fields of it the normalisation branches on.
\* References is [kind, items] with kind "missing", "null" or "list".
RawVuln(id, severity, refs) ==
    [VulnerabilityID |-> id, Severity |-> severity, References |-> refs]
NoRefs == [kind |-> "missing", items |-> <<>>]
NullRefs == [kind |-> "null", items |-> <<>>]
RefList(items) == [kind |-> "list", items |-> items]

\* vuln.get('References') or []
ReferencesOrEmpty(refs) == IF refs.kind = "list" THEN refs.items ELSE <<>>

MitreUrl == Word(TRUE, 1, {"cve.mitre.org"})
RedhatUrl == Word(TRUE, 2, {"redhat.com"})
OtherUrl == Word(TRUE, 3, {})
Text == Word(FALSE, 4, {})
\* A URL of one preferred host that names another in its query string.
RedhatMitreUrl == Word(TRUE, 5, {"redhat.com", "cve.mitre.org"})
WordValues == {Text, MitreUrl, RedhatUrl, OtherUrl, RedhatMitreUrl}

\* The reference lists of exactly r references with at most w words in all.
RECURSIVE ReferenceLists(_, _)
ReferenceLists(r, w) ==
    IF r = 0 THEN {<<>>}
    ELSE UNION { { <<first>> \o rest : first \in [1..k -> WordValues],
                                       rest \in ReferenceLists(r - 1, w - k) }
                 : k \in 0..w }

\* The values of a raw vulnerability's References field.
ReferencesValues ==
    {NoRefs, NullRefs}
    \cup {RefList(items) : items \in UNION {ReferenceLists(r, MaxWords) : r \in 0..MaxRefs}}

\* The first element of the scanner's result array: its Vulnerabilities
\* field is missing, null or a list.
Element(kind, vulns) == [kind |-> kind, vulns |-> vulns]

\* What the scanner writes to stdout: not JSON, or a JSON array.
NotJson == [json |-> FALSE, doc |-> <<>>]
Json(doc) == [json |-> TRUE, doc |-> doc]

GoodVuln == RawVuln(1, "critical", RefList(<< <<Text, OtherUrl>>, <<RedhatUrl, MitreUrl>> >>))
PlainVuln == RawVuln(2, "Low", NullRefs)
BadVuln == RawVuln(3, "SEV9", NoRefs)

ScanStdouts ==
    { NotJson,
      Json(<<>>),
      Json(<<Element("null", <<>>)>>),
      Json(<<Element("missing", <<>>)>>),
      Json(<<Element("list", <<GoodVuln, PlainVuln>>)>>),
      Json(<<Element("list", <<GoodVuln, BadVuln>>)>>) }

\* What a scan subprocess can exit with: (returncode, stdout, stderr).
Exit(returncode, stdout, stderr) ==
    [returncode |-> returncode, stdout |-> stdout, stderr |-> stderr]
ScanExits ==
    {Exit(0, out, NoBytes) : out \in ScanStdouts}
    \cup {Exit(1, NotJson, <<101>>),
          Exit(1, Json(<<Element("list", <<GoodVuln, PlainVuln>>)>>), <<255>>)}

\* As ImageVulnerability, with an unknown severity mapped to UNKNOWN.
ImageVulnerability_Default(vuln) ==
    Returned([title |-> vuln.VulnerabilityID,
              severity |-> IF Upper(vuln.Severity) \in SeverityNames
                           THEN Upper(vuln.Severity) ELSE "UNKNOWN",
              info_url |-> select_reference(ReferencesOrEmpty(vuln.References))])

\* ImageVulnerability(...) for one raw vulnerability, or the exception the
\* construction raises: Severity[...] raises KeyError for an unknown name.
ImageVulnerability(vuln) ==
    IF Upper(vuln.Severity) \notin SeverityNames
    THEN KeyError(Upper(vuln.Severity))
    ELSE Returned([title |-> vuln.VulnerabilityID,
                   severity |-> Upper(vuln.Severity),
                   info_url |-> select_reference(ReferencesOrEmpty(vuln.References))])

\* The list comprehension of scan_image: the records in order, or the
\* exception of the first record that raises.
RECURSIVE Comprehension(_)
Comprehension(vulns) ==
    IF vulns = <<>> THEN Returned(<<>>)
    ELSE LET first == ImageVulnerability(Head(vulns))
             rest == Comprehension(Tail(vulns))
         IN  IF first.kind # "result" THEN first
             ELSE IF rest.kind # "result" THEN rest
             ELSE Returned(<<first.result>> \o rest.result)

\* Lines 153-169: json.loads(stdout_data) and the construction of the result.
Normalize(stdout_data) ==
    IF ~stdout_data.json THEN Raised("JSONDecodeError")
    ELSE IF stdout_data.doc = <<>> THEN Returned(<<>>)
    ELSE LET first == stdout_data.doc[1]
         IN  IF first.kind = "missing" THEN KeyError("Vulnerabilities")
             ELSE Comprehension(IF first.kind = "null" THEN <<>> ELSE first.vulns)

(***************************************************************************)
(* asyncio.Semaphore, as used by "async with app.scan_semaphore".          *)
(***************************************************************************)

RECURSIVE Without(_, _)
Without(seq, x) ==
    IF seq = <<>> THEN <<>>
    ELSE IF Head(seq) = x THEN Without(Tail(seq), x)
    ELSE <<Head(seq)>> \o Without(Tail(seq), x)

\* Semaphore._wake_up_next: resolve the future of the first waiter.  The
\* waiters kept here are the ones whose future is still pending.
WakeUpNext(sem, wk) ==
    IF sem.waiters = <<>> THEN <<sem, wk>>
    ELSE <<[sem EXCEPT !.waiters = Tail(sem.waiters)], wk \cup {Head(sem.waiters)}>>

\* As SemaphoreRelease, handing the unit to a waiter without counting it:
\* the value is only raised when nobody waits.
SemaphoreRelease_HandOff(sem, wk) ==
    IF sem.waiters = <<>> THEN <<[sem EXCEPT !.value = sem.value + 1], wk>>
    ELSE WakeUpNext(sem, wk)

\* Semaphore.release: value += 1, then wake the next waiter.
SemaphoreRelease(sem, wk) == WakeUpNext([sem EXCEPT !.value = sem.value + 1], wk)

\* __aexit__ of the "async with" of call c: release the semaphore.
ExitAsyncWith(c) ==
    LET r == SemaphoreRelease(scan_semaphore, woken)
    IN  /\ scan_semaphore' = r[1]
        /\ woken' = r[2]
        /\ holds' = holds \ {c}

(***************************************************************************)
(* scan_image                                                              *)
(***************************************************************************)

NoProc == [state |-> "none", returncode |-> 0, stdout |-> NotJson, stderr |-> NoBytes]
NoFrame == [returncode |-> 0, stdout_data |-> NotJson, stderr_data |-> NoBytes]

\* As ParseImage, with Image.parse_obj called after a unit was taken with
\* acquire(): the validation error leaves with the unit.
ParseImage_InsideGate(c, valid) ==
    /\ pc[c] = "idle"
    /\ IF valid
       THEN /\ pc' = [pc EXCEPT ![c] = "acquire"]
            /\ UNCHANGED <<outcome, scan_semaphore>>
       ELSE /\ scan_semaphore.value > 0
            /\ scan_semaphore' = [scan_semaphore EXCEPT !.value = @ - 1]
            /\ pc' = [pc EXCEPT ![c] = "done"]
            /\ outcome' = [outcome EXCEPT ![c] = Raised("ValidationError")]
    /\ UNCHANGED <<TRIVY_CONCURRENT_SCANS, woken, holds, proc, frame>>
    /\ UNCHANGED <<status_vars, db_vars, cmd_vars, sel_vars>>

\* The dispatcher calls scan_image(image); Image.parse_obj(image) raises a
\* validation error for a malformed image, before anything else is done.
ParseImage(c, valid) ==
    /\ pc[c] = "idle"
    /\ IF valid
       THEN /\ pc' = [pc EXCEPT ![c] = "acquire"]
            /\ UNCHANGED outcome
       ELSE /\ pc' = [pc EXCEPT ![c] = "done"]
            /\ outcome' = [outcome EXCEPT ![c] = Raised("ValidationError")]
    /\ UNCHANGED <<TRIVY_CONCURRENT_SCANS, scan_semaphore, woken, holds, proc, frame>>
    /\ UNCHANGED <<status_vars, db_vars, cmd_vars, sel_vars>>

\* __aenter__: Semaphore.acquire up to its first await.  With no free unit
\* the call queues a future and waits; otherwise it takes a unit.
Acquire(c) ==
    /\ pc[c] = "acquire"
    /\ IF scan_semaphore.value <= 0
       THEN /\ scan_semaphore' = [scan_semaphore EXCEPT !.waiters = Append(@, c)]
            /\ pc' = [pc EXCEPT ![c] = "acquire_wait"]
            /\ UNCHANGED holds
       ELSE /\ scan_semaphore' = [scan_semaphore EXCEPT !.value = @ - 1]
            /\ pc' = [pc EXCEPT ![c] = "launch"]
            /\ holds' = holds \cup {c}
    /\ UNCHANGED <<TRIVY_CONCURRENT_SCANS, woken, proc, frame, outcome>>
    /\ UNCHANGED <<status_vars, db_vars, cmd_vars, sel_vars>>

\* Semaphore.acquire resumed after its future was resolved: the loop tests
\* the value again, and queues again when another call took the unit.
AcquireResume(c) ==
    /\ pc[c] = "acquire_wait"
    /\ c \in woken
    /\ woken' = woken \ {c}
    /\ IF scan_semaphore.value <= 0
       THEN /\ scan_semaphore' = [scan_semaphore EXCEPT !.waiters = Append(@, c)]
            /\ UNCHANGED <<pc, holds>>
       ELSE /\ scan_semaphore' = [scan_semaphore EXCEPT !.value = @ - 1]
            /\ pc' = [pc EXCEPT ![c] = "launch"]
            /\ holds' = holds \cup {c}
    /\ UNCHANGED <<TRIVY_CONCURRENT_SCANS, proc, frame, outcome>>
    /\ UNCHANGED <<status_vars, db_vars, cmd_vars, sel_vars>>

\* asyncio.create_subprocess_shell(...): the scanner is started, and the
\* call awaits the transport.
Launch(c) ==
    /\ pc[c] = "launch"
    /\ proc' = [proc EXCEPT ![c].state = "running"]
    /\ pc' = [pc EXCEPT ![c] = "launching"]
    /\ UNCHANGED <<TRIVY_CONCURRENT_SCANS, scan_semaphore, woken, holds, frame, outcome>>
    /\ UNCHANGED <<status_vars, db_vars, cmd_vars, sel_vars>>

\* create_subprocess_shell returns the process; the call awaits communicate().
Launched(c) ==
    /\ pc[c] = "launching"
    /\ pc' = [pc EXCEPT ![c] = "communicate"]
    /\ UNCHANGED <<TRIVY_CONCURRENT_SCANS, scan_semaphore, woken, holds, proc, frame, outcome>>
    /\ UNCHANGED <<status_vars, db_vars, cmd_vars, sel_vars>>

\* The scanner subprocess of call c exits, on its own.
ProcExit(c, exit) ==
    /\ proc[c].state = "running"
    /\ proc' = [proc EXCEPT ![c] = [state |-> "exited", returncode |-> exit.returncode,
                                    stdout |-> exit.stdout, stderr |-> exit.stderr]]
    /\ UNCHANGED <<TRIVY_CONCURRENT_SCANS, scan_semaphore, woken, holds, pc, frame, outcome>>
    /\ UNCHANGED <<status_vars, db_vars, cmd_vars, sel_vars>>

\* stdout_data, stderr_data = await proc.communicate() returns once the
\* subprocess has exited; reading the pipe takes the captured stdout out of it.
Communicate(c) ==
    /\ pc[c] = "communicate"
    /\ proc[c].state = "exited"
    /\ frame' = [frame EXCEPT ![c] = [returncode |-> proc[c].returncode,
                                      stdout_data |-> proc[c].stdout,
                                      stderr_data |-> proc[c].stderr]]
    /\ proc' = [proc EXCEPT ![c].stdout = NotJson]
    /\ pc' = [pc EXCEPT ![c] = "exit_gate"]
    /\ UNCHANGED <<TRIVY_CONCURRENT_SCANS, scan_semaphore, woken, holds, outcome>>
    /\ UNCHANGED <<status_vars, db_vars, cmd_vars, sel_vars>>

\* As ExitGate, for an "async with" block that does not end after
\* communicate(): the call goes on with the unit still held.
ExitGate_NoRelease(c) ==
    /\ pc[c] = "exit_gate"
    /\ pc' = [pc EXCEPT ![c] = "check"]
    /\ UNCHANGED <<TRIVY_CONCURRENT_SCANS, scan_semaphore, woken, holds, proc, frame, outcome>>
    /\ UNCHANGED <<status_vars, db_vars, cmd_vars, sel_vars>>

\* The end of the "async with" block, line 150 to 151.
ExitGate(c) ==
    /\ pc[c] = "exit_gate"
    /\ ExitAsyncWith(c)
    /\ pc' = [pc EXCEPT ![c] = "check"]
    /\ UNCHANGED <<TRIVY_CONCURRENT_SCANS, proc, frame, outcome>>
    /\ UNCHANGED <<status_vars, db_vars, cmd_vars, sel_vars>>

\* As CheckReturnCode, with the test of the return code left out.
CheckReturnCode_Ignored(c) ==
    /\ pc[c] = "check"
    /\ pc' = [pc EXCEPT ![c] = "normalize"]
    /\ UNCHANGED <<TRIVY_CONCURRENT_SCANS, scan_semaphore, woken, holds, proc, frame, outcome>>
    /\ UNCHANGED <<status_vars, db_vars, cmd_vars, sel_vars>>

\* if proc.returncode != 0: raise TrivyError(stderr_data)
CheckReturnCode(c) ==
    /\ pc[c] = "check"
    /\ IF frame[c].returncode # 0
       THEN /\ pc' = [pc EXCEPT ![c] = "done"]
            /\ outcome' = [outcome EXCEPT ![c] = TrivyError(frame[c].stderr_data)]
            /\ frame' = [frame EXCEPT ![c] = NoFrame]
       ELSE /\ pc' = [pc EXCEPT ![c] = "normalize"]
            /\ UNCHANGED <<outcome, frame>>
    /\ UNCHANGED <<TRIVY_CONCURRENT_SCANS, scan_semaphore, woken, holds, proc>>
    /\ UNCHANGED <<status_vars, db_vars, cmd_vars, sel_vars>>

\* result = json.loads(stdout_data) and the return statements.
NormalizeResult(c) ==
    /\ pc[c] = "normalize"
    /\ pc' = [pc EXCEPT ![c] = "done"]
    /\ outcome' = [outcome EXCEPT ![c] = Normalize(frame[c].stdout_data)]
    /\ frame' = [frame EXCEPT ![c] = NoFrame]
    /\ UNCHANGED <<TRIVY_CONCURRENT_SCANS, scan_semaphore, woken, holds, proc>>
    /\ UNCHANGED <<status_vars, db_vars, cmd_vars, sel_vars>>

\* What scan_image does to its subprocess when CancelledError is raised at
\* "await proc.communicate()": nothing.  There is no handler around the
\* await, and the process object is only dropped.
ProcAfterCancel(p) == p

\* Cancellation inside create_subprocess_shell: asyncio closes the
\* transport it was waiting for, which kills a child still running.
ProcAfterLaunchCancel(p) ==
    IF p.state = "running" THEN [p EXCEPT !.state = "killed"] ELSE p

\* As CancelledInGate, for acquire()/release() calls without try/finally:
\* the exception skips the release.
CancelledInGate_Leak(c) == UNCHANGED <<scan_semaphore, woken, holds>>

\* CancelledError leaving the body of the "async with": __aexit__ runs for
\* an exception as for a normal exit, and releases the semaphore.
CancelledInGate(c) == ExitAsyncWith(c)

\* The transport cancels call c: CancelledError is raised at the await the
\* call is suspended in, and leaves the "async with" through __aexit__.
Cancel(c) ==
    /\ pc[c] \in {"acquire_wait", "launching", "communicate"}
    /\ pc' = [pc EXCEPT ![c] = "done"]
    /\ outcome' = [outcome EXCEPT ![c] = Raised("CancelledError")]
    /\ CASE pc[c] = "acquire_wait" ->
            \* Semaphore.acquire's except clause: a waiter that was already
            \* woken passes the wake-up on when a unit is free.
            /\ woken' = IF c \in woken /\ scan_semaphore.value > 0
                        THEN WakeUpNext(scan_semaphore, woken \ {c})[2]
                        ELSE woken \ {c}
            /\ scan_semaphore' =
                   IF c \in woken /\ scan_semaphore.value > 0
                   THEN WakeUpNext(scan_semaphore, woken \ {c})[1]
                   ELSE [scan_semaphore EXCEPT !.waiters = Without(@, c)]
            /\ UNCHANGED <<holds, proc>>
         [] pc[c] = "launching" ->
            /\ CancelledInGate(c)
            /\ proc' = [proc EXCEPT ![c] = ProcAfterLaunchCancel(@)]
         [] pc[c] = "communicate" ->
            /\ CancelledInGate(c)
            /\ proc' = [proc EXCEPT ![c] = ProcAfterCancel(@)]
    /\ UNCHANGED <<TRIVY_CONCURRENT_SCANS, frame>>
    /\ UNCHANGED <<status_vars, db_vars, cmd_vars, sel_vars>>

NextScan ==
    \/ \E c \in Calls, valid \in BOOLEAN : ParseImage(c, valid)
    \/ \E c \in Calls : Acquire(c)
    \/ \E c \in Calls : AcquireResume(c)
    \/ \E c \in Calls : Launch(c)
    \/ \E c \in Calls : Launched(c)
    \/ \E c \in Calls, exit \in ScanExits : ProcExit(c, exit)
    \/ \E c \in Calls : Communicate(c)
    \/ \E c \in Calls : ExitGate(c)
    \/ \E c \in Calls : CheckReturnCode(c)
    \/ \E c \in Calls : NormalizeResult(c)
    \/ \E c \in Calls : Cancel(c)

(***************************************************************************)
(* status                                                                  *)
(***************************************************************************)

\* What "trivy --version --format json" writes to stdout: not JSON, or a
\* JSON object with or without the keys Version and VulnerabilityDB.
NotVersionJson == [json |-> FALSE, Version |-> FALSE, VulnerabilityDB |-> FALSE]
VersionJson(version, db) == [json |-> TRUE, Version |-> version, VulnerabilityDB |-> db]
VersionStdouts ==
    {NotVersionJson} \cup {VersionJson(v, d) : v \in BOOLEAN, d \in BOOLEAN}
VersionExits ==
    {Exit(0, out, NoBytes) : out \in VersionStdouts}
    \cup {Exit(1, NotVersionJson, err) : err \in StderrValues}

NoVersionProc ==
    [state |-> "none", returncode |-> 0, stdout |-> NotVersionJson, stderr |-> NoBytes]

\* ScannerStatus(kind = 'Trivy', vendor = 'Aqua Security', ...)
ScannerStatus(version, available, message, properties) ==
    [version |-> version, available |-> available, message |-> message,
     properties |-> properties]

\* app.py lines 77-99: what status() returns or raises once communicate()
\* has returned.  properties is "db" when built from VulnerabilityDB,
\* "empty" for the {} default and "none" for None.
StatusResult(p) ==
    IF p.returncode = 0
    THEN IF ~p.stdout.json THEN Raised("JSONDecodeError")
         ELSE IF ~p.stdout.Version THEN KeyError("Version")
         ELSE Returned(ScannerStatus("version", TRUE, "available",
                           IF p.stdout.VulnerabilityDB THEN "db" ELSE "empty"))
    ELSE IF ~CanDecode(p.stderr) THEN Raised("UnicodeDecodeError")
         ELSE Returned(ScannerStatus("unknown", FALSE, "could not detect status", "none"))

\* trivy.py lines 66-79: the same for the status() of the single-module version.
LegacyStatusResult(p) ==
    IF p.returncode # 0 THEN TrivyError(p.stderr)
    ELSE IF ~p.stdout.json THEN Raised("JSONDecodeError")
    ELSE IF ~p.stdout.Version THEN KeyError("Version")
    ELSE IF ~p.stdout.VulnerabilityDB THEN KeyError("VulnerabilityDB")
    ELSE Returned(ScannerStatus("version", TRUE, "available", "db"))

\* As StatusLaunch, for a status() that runs its subprocess under the scan
\* semaphore: it needs a free unit and takes it.
StatusLaunch_Gated(s, legacy) ==
    /\ spc[s] = "idle"
    /\ scan_semaphore.value > 0
    /\ scan_semaphore' = [scan_semaphore EXCEPT !.value = @ - 1]
    /\ spc' = [spc EXCEPT ![s] = IF legacy THEN "legacy_communicate" ELSE "communicate"]
    /\ sproc' = [sproc EXCEPT ![s].state = "running"]
    /\ UNCHANGED soutcome
    /\ UNCHANGED <<TRIVY_CONCURRENT_SCANS, woken, holds, pc, proc, frame, outcome>>
    /\ UNCHANGED <<db_vars, cmd_vars, sel_vars>>

\* status() is called: create_subprocess_shell starts the version query,
\* no semaphore is involved.  legacy selects the status() of trivy.py.
StatusLaunch(s, legacy) ==
    /\ spc[s] = "idle"
    /\ spc' = [spc EXCEPT ![s] = IF legacy THEN "legacy_communicate" ELSE "communicate"]
    /\ sproc' = [sproc EXCEPT ![s].state = "running"]
    /\ UNCHANGED soutcome
    /\ UNCHANGED <<scan_vars, db_vars, cmd_vars, sel_vars>>

\* The version-query subprocess exits.
StatusProcExit(s, exit) ==
    /\ sproc[s].state = "running"
    /\ sproc' = [sproc EXCEPT ![s] = [state |-> "exited", returncode |-> exit.returncode,
                                      stdout |-> exit.stdout, stderr |-> exit.stderr]]
    /\ UNCHANGED <<spc, soutcome>>
    /\ UNCHANGED <<scan_vars, db_vars, cmd_vars, sel_vars>>

\* communicate() returns and status() of app.py runs to its end.
StatusReturn(s) ==
    /\ spc[s] = "communicate"
    /\ sproc[s].state = "exited"
    /\ spc' = [spc EXCEPT ![s] = "done"]
    /\ soutcome' = [soutcome EXCEPT ![s] = StatusResult(sproc[s])]
    /\ UNCHANGED sproc
    /\ UNCHANGED <<scan_vars, db_vars, cmd_vars, sel_vars>>

\* communicate() returns and status() of trivy.py runs to its end.
LegacyStatusReturn(s) ==
    /\ spc[s] = "legacy_communicate"
    /\ sproc[s].state = "exited"
    /\ spc' = [spc EXCEPT ![s] = "done"]
    /\ soutcome' = [soutcome EXCEPT ![s] = LegacyStatusResult(sproc[s])]
    /\ UNCHANGED sproc
    /\ UNCHANGED <<scan_vars, db_vars, cmd_vars, sel_vars>>

NextStatus ==
    \/ \E s \in StatusCalls, legacy \in BOOLEAN : StatusLaunch(s, legacy)
    \/ \E s \in StatusCalls, exit \in VersionExits : StatusProcExit(s, exit)
    \/ \E s \in StatusCalls : StatusReturn(s)
    \/ \E s \in StatusCalls : LegacyStatusReturn(s)

(***************************************************************************)
(* db.py: do_update and periodic_update                                    *)
(***************************************************************************)

\* What "trivy image --download-db-only" can exit with; do_update reads
\* only the return code and stderr.
UpdateExits ==
    {Exit(0, NotJson, NoBytes)} \cup {Exit(1, NotJson, err) : err \in StderrValues}

NoUpdateProc == [state |-> "none", returncode |-> 0, stderr |-> NoBytes]

\* As CommunicateReturns, for a do_update that does not await the subprocess.
CommunicateReturns_NoWait(p) == TRUE

\* Whether "await proc.communicate()" of do_update can return: the
\* subprocess it was called on has exited.
CommunicateReturns(p) == p.state = "exited"

\* As DoUpdateLaunch, for a do_update that runs the download under the scan
\* semaphore: it needs a free unit and takes it.
DoUpdateLaunch_Gated ==
    /\ upc = "do_update"
    /\ updates < MaxUpdates
    /\ scan_semaphore.value > 0
    /\ scan_semaphore' = [scan_semaphore EXCEPT !.value = @ - 1]
    /\ updates' = updates + 1
    /\ db_procs' = db_procs + 1
    /\ uproc' = [NoUpdateProc EXCEPT !.state = "running"]
    /\ events' = Append(events, "update")
    /\ upc' = "communicate"
    /\ UNCHANGED <<TRIVY_DB_UPDATE_INTERVAL, timer, slept>>
    /\ UNCHANGED <<TRIVY_CONCURRENT_SCANS, woken, holds, pc, proc, frame, outcome>>
    /\ UNCHANGED <<status_vars, cmd_vars, sel_vars>>

\* periodic_update calls do_update: create_subprocess_shell starts the download.
DoUpdateLaunch ==
    /\ upc = "do_update"
    /\ updates < MaxUpdates
    /\ updates' = updates + 1
    /\ db_procs' = db_procs + 1
    /\ uproc' = [NoUpdateProc EXCEPT !.state = "running"]
    /\ events' = Append(events, "update")
    /\ upc' = "communicate"
    /\ UNCHANGED <<TRIVY_DB_UPDATE_INTERVAL, timer, slept>>
    /\ UNCHANGED <<scan_vars, status_vars, cmd_vars, sel_vars>>

\* A database-download subprocess exits.
UpdateProcExit(exit) ==
    /\ db_procs > 0
    /\ db_procs' = db_procs - 1
    /\ uproc' = [state |-> "exited", returncode |-> exit.returncode, stderr |-> exit.stderr]
    /\ UNCHANGED <<TRIVY_DB_UPDATE_INTERVAL, upc, timer, slept, updates, events>>
    /\ UNCHANGED <<scan_vars, status_vars, cmd_vars, sel_vars>>

\* Lines 74-78: communicate() returns and do_update logs the outcome.  The
\* error branch formats stderr_data.decode(), which raises for bytes that
\* are not UTF-8; nothing in do_update or periodic_update catches it.
DoUpdateLog ==
    /\ upc = "communicate"
    /\ CommunicateReturns(uproc)
    /\ upc' = IF uproc.returncode # 0 /\ ~CanDecode(uproc.stderr)
              THEN "raised" ELSE "sleep"
    /\ UNCHANGED <<TRIVY_DB_UPDATE_INTERVAL, db_procs, uproc, timer, slept, updates, events>>
    /\ UNCHANGED <<scan_vars, status_vars, cmd_vars, sel_vars>>

\* await asyncio.sleep(TRIVY_DB_UPDATE_INTERVAL)
Sleep ==
    /\ upc = "sleep"
    /\ timer' = TRIVY_DB_UPDATE_INTERVAL
    /\ slept' = TRIVY_DB_UPDATE_INTERVAL
    /\ upc' = "sleeping"
    /\ UNCHANGED <<TRIVY_DB_UPDATE_INTERVAL, db_procs, uproc, updates, events>>
    /\ UNCHANGED <<scan_vars, status_vars, cmd_vars, sel_vars>>

\* A second of the sleep passes.
Tick ==
    /\ upc = "sleeping"
    /\ timer > 0
    /\ timer' = timer - 1
    /\ UNCHANGED <<TRIVY_DB_UPDATE_INTERVAL, upc, db_procs, uproc, slept, updates, events>>
    /\ UNCHANGED <<scan_vars, status_vars, cmd_vars, sel_vars>>

\* The sleep has elapsed: the loop goes round.
SleepReturns ==
    /\ upc = "sleeping"
    /\ timer = 0
    /\ events' = Append(events, "sleep")
    /\ upc' = "do_update"
    /\ UNCHANGED <<TRIVY_DB_UPDATE_INTERVAL, db_procs, uproc, timer, slept, updates>>
    /\ UNCHANGED <<scan_vars, status_vars, cmd_vars, sel_vars>>

NextDb ==
    \/ DoUpdateLaunch
    \/ \E exit \in UpdateExits : UpdateProcExit(exit)
    \/ DoUpdateLog
    \/ Sleep
    \/ Tick
    \/ SleepReturns

(***************************************************************************)
(* select_reference, as scan_image calls it (line 159).                    *)
(***************************************************************************)
SelectReference ==
    /\ sel_pc = "call"
    /\ sel_url' = select_reference(ReferencesOrEmpty(sel_refs))
    /\ sel_pc' = "done"
    /\ UNCHANGED sel_refs
    /\ UNCHANGED <<scan_vars, status_vars, db_vars, cmd_vars>>

NextSelect == SelectReference

(***************************************************************************)
(* db.py: the console scripts trivy-db-exists and trivy-db-update.  Each   *)
(* is sys.exit(f()) of setup.py's entry point f: the exit status is 0 when *)
(* f returns, the argument of sys.exit when f calls it, and 1 when an      *)
(* exception leaves f.                                                     *)
(***************************************************************************)

\* What the version query can exit with when run by exists().
ExistsExits ==
    VersionExits \cup {Exit(2, NotVersionJson, err) : err \in StderrValues}

NoCmdProc ==
    [state |-> "none", returncode |-> 0, stdout |-> NotVersionJson, stderr |-> NoBytes]

\* The exit status of an uncaught exception.
UncaughtStatus == 1

\* Lines 47-60 of exists(): the exit status once communicate() has returned.
ExistsStatus(p) ==
    IF p.returncode # 0
    THEN IF ~CanDecode(p.stderr) THEN UncaughtStatus   \* logger.error(... .decode())
         ELSE p.returncode                             \* sys.exit(proc.returncode)
    ELSE IF ~p.stdout.json THEN UncaughtStatus         \* json.loads raises
         ELSE IF p.stdout.VulnerabilityDB THEN 0       \* exists() returns
         ELSE 1                                        \* sys.exit(1)

\* Lines 74-78 of do_update(), run by update(): the exit status once
\* communicate() has returned.  do_update returns None on both branches,
\* unless decoding stderr raises.
UpdateStatus(p) ==
    IF p.returncode # 0 /\ ~CanDecode(p.stderr) THEN UncaughtStatus ELSE 0

\* trivy-db-exists is run: exists() starts the version query.
ExistsLaunch ==
    /\ epc \in {"idle", "exited"}
    /\ runs < MaxRuns
    /\ runs' = runs + 1
    /\ epc' = "exists_communicate"
    /\ eproc' = [NoCmdProc EXCEPT !.state = "running"]
    /\ downloads' = 0
    /\ UNCHANGED estatus
    /\ UNCHANGED <<scan_vars, status_vars, db_vars, sel_vars>>

\* trivy-db-update is run: do_update() starts the database download.
UpdateLaunch ==
    /\ epc \in {"idle", "exited"}
    /\ runs < MaxRuns
    /\ runs' = runs + 1
    /\ epc' = "update_communicate"
    /\ eproc' = [NoCmdProc EXCEPT !.state = "running"]
    /\ downloads' = 1
    /\ UNCHANGED estatus
    /\ UNCHANGED <<scan_vars, status_vars, db_vars, sel_vars>>

\* The subprocess of the console script exits.
CmdProcExit(exit) ==
    /\ eproc.state = "running"
    /\ eproc' = [state |-> "exited", returncode |-> exit.returncode,
                 stdout |-> exit.stdout, stderr |-> exit.stderr]
    /\ UNCHANGED <<epc, estatus, downloads, runs>>
    /\ UNCHANGED <<scan_vars, status_vars, db_vars, sel_vars>>

\* communicate() returns to exists(), and the script exits.
ExistsReturn ==
    /\ epc = "exists_communicate"
    /\ eproc.state = "exited"
    /\ estatus' = ExistsStatus(eproc)
    /\ epc' = "exited"
    /\ UNCHANGED <<eproc, downloads, runs>>
    /\ UNCHANGED <<scan_vars, status_vars, db_vars, sel_vars>>

\* communicate() returns to do_update(), and the script exits.
UpdateReturn ==
    /\ epc = "update_communicate"
    /\ eproc.state = "exited"
    /\ estatus' = UpdateStatus(eproc)
    /\ epc' = "exited"
    /\ UNCHANGED <<eproc, downloads, runs>>
    /\ UNCHANGED <<scan_vars, status_vars, db_vars, sel_vars>>

NextCmd ==
    \/ ExistsLaunch
    \/ UpdateLaunch
    \/ \E exit \in ExistsExits :
           epc = "exists_communicate" /\ CmdProcExit(exit)
    \/ \E exit \in UpdateExits :
           epc = "update_communicate"
           /\ CmdProcExit([exit EXCEPT !.stdout = NotVersionJson])
    \/ ExistsReturn
    \/ UpdateReturn

(***************************************************************************)
(* Initial states: create_semaphore has run, nothing has been called.      *)
(* The two settings are read from the environment at import.               *)
(***************************************************************************)
InitWith(capacities, intervals) ==
    /\ TRIVY_CONCURRENT_SCANS \in capacities
    /\ scan_semaphore = [value |-> TRIVY_CONCURRENT_SCANS, waiters |-> <<>>]
    /\ woken = {}
    /\ holds = {}
    /\ pc = [c \in Calls |-> "idle"]
    /\ proc = [c \in Calls |-> NoProc]
    /\ frame = [c \in Calls |-> NoFrame]
    /\ outcome = [c \in Calls |-> NoOutcome]
    /\ spc = [s \in StatusCalls |-> "idle"]
    /\ sproc = [s \in StatusCalls |-> NoVersionProc]
    /\ soutcome = [s \in StatusCalls |-> NoOutcome]
    /\ TRIVY_DB_UPDATE_INTERVAL \in intervals
    /\ upc = "do_update"
    /\ db_procs = 0
    /\ uproc = NoUpdateProc
    /\ timer = 0
    /\ slept = 0
    /\ updates = 0
    /\ events = <<>>
    /\ epc = "idle"
    /\ eproc = NoCmdProc
    /\ estatus = 0
    /\ downloads = 0
    /\ runs = 0

\* No call of select_reference is followed on its own.
NoSelect ==
    /\ sel_pc = "idle"
    /\ sel_refs = NoRefs
    /\ sel_url = NoUrl

Init == InitWith(1..MaxCapacity, {1}) /\ NoSelect
InitStatus == InitWith({1}, {1}) /\ NoSelect
InitDb == InitWith({1}, 1..MaxInterval) /\ NoSelect
\* scan_image is about to set info_url for a raw vulnerability.
InitSelect ==
    /\ InitWith({1}, {1})
    /\ sel_pc = "call"
    /\ sel_refs \in ReferencesValues
    /\ sel_url = NoUrl

\* The service under scan_image calls.
Spec == Init /\ [][NextScan]_vars
\* The service under status calls.
SpecStatus == InitStatus /\ [][NextStatus]_vars
\* The trivy-db-periodic-update process.
SpecDb == InitDb /\ [][NextDb]_vars
\* Runs of trivy-db-exists and trivy-db-update.
SpecCmd == InitStatus /\ [][NextCmd]_vars
\* scan_image calls that are not cancelled, for valid images and a scanner
\* that exits 0 with no findings or 1.
GateExits == {Exit(0, Json(<<>>), NoBytes), Exit(1, NotJson, <<101>>)}
NextGate ==
    \/ \E c \in Calls : ParseImage(c, TRUE)
    \/ \E c \in Calls : Acquire(c)
    \/ \E c \in Calls : AcquireResume(c)
    \/ \E c \in Calls : Launch(c)
    \/ \E c \in Calls : Launched(c)
    \/ \E c \in Calls, exit \in GateExits : ProcExit(c, exit)
    \/ \E c \in Calls : Communicate(c)
    \/ \E c \in Calls : ExitGate(c)
    \/ \E c \in Calls : CheckReturnCode(c)
    \/ \E c \in Calls : NormalizeResult(c)

\* A further scan_image call arrives: the slot of a call that has ended is
\* taken by a new call.
Reissue(c) ==
    /\ pc[c] = "done"
    /\ proc[c].state # "running"
    /\ pc' = [pc EXCEPT ![c] = "idle"]
    /\ proc' = [proc EXCEPT ![c] = NoProc]
    /\ frame' = [frame EXCEPT ![c] = NoFrame]
    /\ outcome' = [outcome EXCEPT ![c] = NoOutcome]
    /\ UNCHANGED <<TRIVY_CONCURRENT_SCANS, scan_semaphore, woken, holds>>
    /\ UNCHANGED <<status_vars, db_vars, cmd_vars, sel_vars>>

\* The service under an unending stream of scan_image calls.
NextStream ==
    \/ NextGate
    \/ \E c \in Calls : Reissue(c)

\* The event loop runs every ready task, and every launched scanner exits:
\* each step of a call that stays possible is taken. The arrival of calls is
\* left to the clients.
Fairness ==
    \A c \in Calls :
        /\ WF_vars(Acquire(c))
        /\ WF_vars(AcquireResume(c))
        /\ WF_vars(Launch(c))
        /\ WF_vars(Launched(c))
        /\ WF_vars(\E exit \in GateExits : ProcExit(c, exit))
        /\ WF_vars(Communicate(c))
        /\ WF_vars(ExitGate(c))
        /\ WF_vars(CheckReturnCode(c))
        /\ WF_vars(NormalizeResult(c))

SpecStream == Init /\ [][NextStream]_vars /\ Fairness

\* One caller polling status() of app.py.
NextPoll ==
    \/ StatusLaunch(1, FALSE)
    \/ \E exit \in VersionExits : StatusProcExit(1, exit)
    \/ StatusReturn(1)

\* The refresh loop with updates whose stderr decodes.
NextRefresh ==
    \/ DoUpdateLaunch
    \/ \E exit \in {x \in UpdateExits : CanDecode(x.stderr)} : UpdateProcExit(exit)
    \/ DoUpdateLog
    \/ Sleep
    \/ Tick
    \/ SleepReturns

\* The service under scan_image calls and status polls.
SpecScanStatus == Init /\ [][NextGate \/ NextPoll]_vars
\* The service under scan_image calls with the refresh loop beside it.
SpecScanDb == Init /\ [][NextGate \/ NextRefresh]_vars
\* select_reference on every References value within the bounds.
SpecSelect == InitSelect /\ [][NextSelect]_vars

(***************************************************************************)
(* The properties checked.                                                 *)
(***************************************************************************)

\* The calls between __aenter__ and __aexit__ of the "async with" block.
InGate == {c \in Calls : pc[c] \in {"launch", "launching", "communicate", "exit_gate"}}

\* The scan subprocesses launched and not yet exited.
Running == {c \in Calls : proc[c].state = "running"}

\* C1: with capacity N, the number of scan subprocesses that have been
\* launched and have not yet exited is at most N in every reachable state.
C1_AtMostNInFlight == Cardinality(Running) <= TRIVY_CONCURRENT_SCANS

\* C2: status() never raises: every status call that has ended returned a
\* ScannerStatus, with available = false when the version query exited
\* non-zero, wrote no well-formed JSON or wrote JSON without the version.
C2_StatusNeverRaises ==
    \A s \in StatusCalls :
        spc[s] = "done" =>
            /\ soutcome[s].kind = "result"
            /\ (sproc[s].returncode # 0 \/ ~sproc[s].stdout.json \/ ~sproc[s].stdout.Version)
                   => ~soutcome[s].result.available

\* C3: a scan_image call cancelled while it holds a gate unit has given the
\* unit back: it holds none afterwards, and the free capacity is N less the
\* units of the calls still holding one.
C3_CancelReleasesUnit ==
    \A c \in Calls :
        outcome[c].kind = "CancelledError" =>
            /\ c \notin holds
            /\ scan_semaphore.value = TRIVY_CONCURRENT_SCANS - Cardinality(holds)

\* C3 witness: a call was cancelled after it launched its subprocess, and
\* the whole capacity is free again.
C3_Witness ==
    \E c \in Calls :
        /\ outcome[c].kind = "CancelledError"
        /\ proc[c].state # "none"
        /\ scan_semaphore.value = TRIVY_CONCURRENT_SCANS

\* C4: no scan subprocess is still running while the call that launched it
\* has ended.
C4_NoOrphanSubprocess ==
    \A c \in Calls : proc[c].state = "running" => pc[c] \in {"launching", "communicate"}

\* C5: a call that checks the exit code, parses or normalizes, or has ended
\* on any path, holds no gate unit; the units in use are exactly those of
\* the calls between acquisition and the return of communicate().
C5_ReleasedBeforeNormalization ==
    /\ \A c \in Calls : pc[c] \in {"check", "normalize", "done"} => c \notin holds
    /\ scan_semaphore.value = TRIVY_CONCURRENT_SCANS - Cardinality(InGate)

\* C5 witness: with capacity 1, one call normalizes its output while
\* another call has the unit and waits for its subprocess.
C5_Witness ==
    /\ TRIVY_CONCURRENT_SCANS = 1
    /\ \E c, d \in Calls : pc[c] = "normalize" /\ pc[d] = "communicate" /\ d \in holds

\* C6: a call whose subprocess exited non-zero never ends with a result
\* list, and unless it was cancelled it ends with TrivyError, code 100,
\* carrying the captured stderr.
C6_NonZeroExitRaisesTrivyError ==
    \A c \in Calls :
        (pc[c] = "done" /\ proc[c].state = "exited" /\ proc[c].returncode # 0) =>
            /\ outcome[c].kind # "result"
            /\ outcome[c].kind # "CancelledError" =>
                   /\ outcome[c] = TrivyError(proc[c].stderr)
                   /\ outcome[c].code = 100

\* C6 witness: a call ended with TrivyError carrying the stderr bytes.
C6_Witness ==
    \E c \in Calls :
        /\ pc[c] = "done"
        /\ proc[c].returncode = 1
        /\ outcome[c].kind = "TrivyError"
        /\ outcome[c].data = <<255>>

\* C7: a call that ended with a validation error launched no subprocess,
\* holds no unit and waits for none, and the step that ended it left the
\* gate as it was.
C7_InvalidImageTouchesNothing ==
    /\ [](\A c \in Calls :
            outcome[c].kind = "ValidationError" =>
                /\ pc[c] = "done"
                /\ proc[c].state = "none"
                /\ c \notin holds
                /\ c \notin woken
                /\ \A i \in 1..Len(scan_semaphore.waiters) : scan_semaphore.waiters[i] # c)
    /\ [][\A c \in Calls :
            (outcome[c].kind = "none" /\ outcome'[c].kind = "ValidationError") =>
                UNCHANGED <<scan_semaphore, woken, holds, proc>>]_vars

\* C7 witness: a call was rejected while another call holds the only unit.
C7_Witness ==
    \E c, d \in Calls :
        /\ outcome[c].kind = "ValidationError"
        /\ d \in holds
        /\ scan_semaphore.value = 0

\* Output of a zero exit that cannot be normalized: not JSON, or a record
\* whose severity token names no member of Severity.
Unnormalizable(stdout_data) ==
    \/ ~stdout_data.json
    \/ /\ stdout_data.doc # <<>>
       /\ stdout_data.doc[1].kind = "list"
       /\ \E i \in 1..Len(stdout_data.doc[1].vulns) :
              Upper(stdout_data.doc[1].vulns[i].Severity) \notin SeverityNames

\* C8: after a zero exit with output that is not JSON or has an unknown
\* severity token, the call ends with an error, returns no list, and the
\* error is not the code-100 TrivyError.
C8_UnnormalizableOutputIsDistinctError ==
    [][\A c \in Calls :
          (/\ pc[c] = "normalize"
           /\ pc'[c] = "done"
           /\ frame[c].returncode = 0
           /\ Unnormalizable(frame[c].stdout_data)) =>
              /\ outcome'[c].kind \in {"JSONDecodeError", "KeyError"}
              /\ outcome'[c].result = <<>>
              /\ outcome'[c].code # TrivyErrorCode]_vars

\* C8 witness: a call ended with the KeyError of the severity lookup.
C8_Witness ==
    \E c \in Calls :
        /\ pc[c] = "done"
        /\ proc[c].returncode = 0
        /\ outcome[c].kind = "KeyError"
        /\ outcome[c].key = "SEV9"

\* C9: the periodic_update loop never raises, whatever the updates exit with.
C9_LoopNeverRaises == upc # "raised"

\* Updates and sleeps alternate, starting with an update.
Alternates(evs) ==
    \A i \in 1..Len(evs) : evs[i] = (IF i % 2 = 1 THEN "update" ELSE "sleep")

\* C10: at most one database-update subprocess is in flight, none is while
\* the loop sleeps or is about to start an update, and updates started and
\* sleeps elapsed strictly alternate, starting with an update.
C10_OneUpdateInFlight ==
    /\ db_procs <= 1
    /\ upc \in {"sleep", "sleeping", "do_update"} => db_procs = 0
    /\ Alternates(events)

\* C10 witness: the second update is in flight, after a full sleep.
C10_Witness ==
    /\ db_procs = 1
    /\ Len(events) = 3
    /\ slept = TRIVY_DB_UPDATE_INTERVAL
    /\ timer = 0

\* The run of a console script that has just ended was of this script.
Ended(script) ==
    /\ epc = "exited"
    /\ downloads = (IF script = "update" THEN 1 ELSE 0)

\* C11: trivy-db-exists exits with status zero exactly when the version
\* query exited zero and its JSON output has the VulnerabilityDB field, and
\* on a non-zero exit of the query its status is the query's exit code.
C11_ExistsExitStatus ==
    Ended("exists") =>
        /\ estatus = 0 <=>
               (eproc.returncode = 0 /\ eproc.stdout.json /\ eproc.stdout.VulnerabilityDB)
        /\ eproc.returncode # 0 => estatus = eproc.returncode

\* C12: trivy-db-update runs the download command exactly once and ends
\* with exit status 0, whatever the download exits with.
C12_UpdateAlwaysExitsZero ==
    Ended("update") => (downloads = 1 /\ estatus = 0)

\* The URLs extracted from the References value, in extraction order.
ExtractedUrls == ChainUrls(ReferencesOrEmpty(sel_refs))

\* The positions of the extracted URLs that contain the k-th preferred host.
Matching(k) ==
    {i \in 1..Len(ExtractedUrls) : PREFERRED_REFERENCES[k] \in ExtractedUrls[i].contains}

Least(S) == CHOOSE x \in S : \A y \in S : x <= y

\* C13: select_reference returns the first extracted URL that contains the
\* earliest preferred host any extracted URL contains, whatever the order
\* of the references; with no such host, the first extracted URL.
C13_PreferredHostWins ==
    sel_pc = "done" =>
        LET matched == {k \in 1..Len(PREFERRED_REFERENCES) : Matching(k) # {}}
        IN  IF matched # {}
            THEN sel_url = SomeUrl(ExtractedUrls[Least(Matching(Least(matched)))])
            ELSE ExtractedUrls # <<>> => sel_url = SomeUrl(ExtractedUrls[1])

\* C13 witness: a redhat.com URL is extracted first, a cve.mitre.org URL
\* after it, and the cve.mitre.org URL was returned.
C13_Witness ==
    /\ sel_pc = "done"
    /\ Len(ExtractedUrls) >= 2
    /\ ExtractedUrls[1] = RedhatUrl
    /\ sel_url = SomeUrl(MitreUrl)

\* The words of the references that match the URL pattern.
ExtractableUrls ==
    LET items == ReferencesOrEmpty(sel_refs)
    IN  {w \in UNION {{items[i][j] : j \in 1..Len(items[i])} : i \in 1..Len(items)} : w.url}

\* C14: the URL select_reference returns, when present, is one of the URLs
\* extractable from the references; it is absent exactly when there is
\* none, as for an empty list and for a null or missing References.
C14_UrlIsExtractedOrAbsent ==
    sel_pc = "done" =>
        /\ sel_url.present => sel_url.url \in ExtractableUrls
        /\ ~sel_url.present <=> ExtractableUrls = {}
        /\ (sel_refs.kind # "list" \/ sel_refs.items = <<>>) => ~sel_url.present

\* C14 witness: references that hold text but no URL gave no URL.
C14_Witness ==
    /\ sel_pc = "done"
    /\ sel_refs.kind = "list"
    /\ \E i \in 1..Len(sel_refs.items) : sel_refs.items[i] # <<>>
    /\ ExtractableUrls = {}
    /\ ~sel_url.present

\* Output that reports no findings: an empty array, or a first element
\* whose Vulnerabilities field is null or missing.
NoFindings(stdout_data) ==
    /\ stdout_data.json
    /\ \/ stdout_data.doc = <<>>
       \/ stdout_data.doc[1].kind \in {"null", "missing"}

\* C15: after a zero exit, output that reports no findings gives an empty
\* list and no error; a list of raw vulnerabilities that can be normalized
\* gives one record for each, in the scanner's order.
C15_NoFindingsIsEmptyResult ==
    [][\A c \in Calls :
          (pc[c] = "normalize" /\ pc'[c] = "done" /\ frame[c].returncode = 0) =>
              LET out == frame[c].stdout_data
              IN  /\ NoFindings(out) => outcome'[c] = Returned(<<>>)
                  /\ (out.json /\ ~NoFindings(out) /\ ~Unnormalizable(out)) =>
                         /\ outcome'[c].kind = "result"
                         /\ Len(outcome'[c].result) = Len(out.doc[1].vulns)
                         /\ \A i \in 1..Len(out.doc[1].vulns) :
                                outcome'[c].result[i].title =
                                    out.doc[1].vulns[i].VulnerabilityID]_vars

\* The calls that have been started and have not ended.
Active == {c \in Calls : pc[c] \notin {"idle", "done"}}

\* C18: the free units plus the calls inside the gated section are N, the
\* free units stay within 0..N, and when every started call has ended the
\* free units are N again.
C18_GateConservation ==
    /\ scan_semaphore.value + Cardinality(InGate) = TRIVY_CONCURRENT_SCANS
    /\ scan_semaphore.value \in 0..TRIVY_CONCURRENT_SCANS
    /\ Active = {} => scan_semaphore.value = TRIVY_CONCURRENT_SCANS

\* C18 witness: with capacity 1, one call has ended with a result and
\* another was cancelled inside the gate; no call is active and the unit
\* is free.
C18_Witness ==
    /\ TRIVY_CONCURRENT_SCANS = 1
    /\ Active = {}
    /\ scan_semaphore.value = 1
    /\ \E c, d \in Calls :
           /\ outcome[c].kind = "CancelledError" /\ proc[c].state # "none"
           /\ outcome[d].kind = "result"

\* C16: status() does not use the scan gate: a status call can be started
\* and can return in every state, also with all N units held, and no step
\* of a status call changes the gate.
C16_StatusBypassesGate ==
    /\ [](\A s \in StatusCalls :
            /\ spc[s] = "idle" => ENABLED StatusLaunch(s, FALSE)
            /\ (spc[s] = "communicate" /\ sproc[s].state = "exited")
                   => ENABLED StatusReturn(s))
    /\ [][status_vars' # status_vars =>
              UNCHANGED <<scan_semaphore, woken, holds>>]_vars

\* C16 witness: a status call has returned a ScannerStatus while all N
\* units are held by scans waiting for their subprocesses and a further
\* scan waits for a unit.
C16_Witness ==
    /\ \E s \in StatusCalls : spc[s] = "done" /\ soutcome[s].kind = "result"
    /\ scan_semaphore.value = 0
    /\ Cardinality(holds) = TRIVY_CONCURRENT_SCANS
    /\ \A c \in holds : pc[c] = "communicate" /\ proc[c].state = "running"
    /\ \E c \in Calls : pc[c] = "acquire_wait"

\* C17: the refresh loop does not use the scan gate: no step of it changes
\* the gate, an update can be started whatever the gate's state, and a scan
\* that finds a free unit is admitted whatever the loop is doing.
C17_RefreshSharesNoLock ==
    /\ [](upc = "do_update" /\ updates < MaxUpdates => ENABLED DoUpdateLaunch)
    /\ [][db_vars' # db_vars => UNCHANGED <<scan_semaphore, woken, holds>>]_vars
    /\ [][\A c \in Calls :
            (pc[c] = "acquire" /\ pc'[c] # "acquire" /\ scan_semaphore.value > 0)
                => pc'[c] = "launch"]_vars

\* C17 witness: a database update is in flight together with N scan
\* subprocesses.
C17_Witness ==
    /\ db_procs = 1
    /\ upc = "communicate"
    /\ Cardinality(Running) = TRIVY_CONCURRENT_SCANS
    /\ Cardinality(holds) = TRIVY_CONCURRENT_SCANS

\* C19: no starvation: under fair scheduling and scanners that exit, every
\* scan_image call that passed validation is eventually admitted through the
\* gate and eventually ends with a result or an error.
C19_NoStarvation ==
    \A c \in Calls :
        /\ (pc[c] \in {"acquire", "acquire_wait"}) ~> (c \in holds)
        /\ (pc[c] \in {"acquire", "acquire_wait"}) ~> (pc[c] = "done")

====
